---------------------------- MODULE Spec2Model ----------------------------
(***************************************************************************)
(* A model of api/affinity-ev.js: the webhook handler that reads the min,  *)
(* max and likelihood fields of a list entry, computes the expected value  *)
(* (computeEV) and writes it back through the v2 API.                      *)
(*                                                                         *)
(* JavaScript values are tagged records: undefined, null, numbers,         *)
(* strings (sequences of one-character strings) and objects (functions     *)
(* from keys to values).  Numbers are integers; the one place where the    *)
(* code leaves the integers, the midpoint (mi + ma) / 2 and the product    *)
(* m * p, is computed exactly on the fraction (mi + ma) * pct / 200.  For  *)
(* the amounts and likelihoods of this model the IEEE-754 double product   *)
(* of the code has the same Math.round as the exact fraction; for larger   *)
(* inputs it need not (50 * 0.29 is 14.499999999999998 as a double).       *)
(***************************************************************************)
EXTENDS Integers, Sequences, FiniteSets, TLC

\* src/api/affinity-ev.js:3
LIST_ID == 300305

\* src/api/affinity-ev.js:8
ZERO_AS_MISSING == TRUE

\* Amounts of the min and max fields range over -MaxAmount..MaxAmount.
MaxAmount == 3

\* Likelihoods range over the multiples of 25 from -25 to 25 * MaxPctStep.
MaxPctStep == 5

\* The min and max fields that the handler reads range over -MaxFieldAmount..MaxFieldAmount.
MaxFieldAmount == 1

\* The likelihood field that the handler reads ranges over the multiples of 50
\* from 0 to 50 * MaxFieldPctStep.
MaxFieldPctStep == 2

\* Two invocations: the entry's fields are edited at most MaxEdits times.
MaxEdits == 1

\* src/api/affinity-ev.js:120, for (let i = 0; i < 4; i++)
MaxAttempts == 4

VARIABLES
    token,       \* process.env.AFFINITY_V2_TOKEN is set
    req,         \* the request: content type, body as the host delivers it, raw stream
    pc,          \* where the invocation is: start, read, post, verify, sleep, done
    listEntryId, \* line 90
    eventListId, \* line 96
    fields,      \* the field values the per-entry read returned (f.value?.data)
    min,         \* line 104
    max,         \* line 105
    p,           \* line 106
    ev,          \* line 107
    post,        \* the answer to the write: whether a response came, and its status
    i,           \* the verify loop's counter
    persisted,   \* line 119, 122
    reads,       \* the EV values the verify re-reads returned, in order
    delays,      \* the sleeps of the verify loop in ms, in order
    calls,       \* the outbound calls issued, in order
    resp,        \* the response: HTTP status and body
    caught,      \* the error e of the catch block (line 128), if one was thrown
    evArgs,      \* calculator harness: the arguments (min, max, pPct) of computeEV
    evDone,      \* calculator harness: computeEV has returned
    evResult,    \* calculator harness: the value computeEV returned
    normIn,      \* normaliser harness: payload, envelope, representation, content type
    normDone,    \* normaliser harness: the normalisation has run
    normOut,     \* normaliser harness: what it resolved
    remote,      \* two invocations: the entry's fields as the remote API stores them
    inv,         \* two invocations: each invocation's position and local values
    changes      \* two invocations: how often the entry's fields were edited

handlerVars == <<token, req, pc, listEntryId, eventListId, fields, min, max, p, ev, post, i,
                 persisted, reads, delays, calls, resp, caught>>

evVars == <<evArgs, evDone, evResult>>

normVars == <<normIn, normDone, normOut>>

raceVars == <<remote, inv, changes>>

harnessVars == <<evVars, normVars, raceVars>>

vars == <<handlerVars, evVars, normVars, raceVars>>

---------------------------------------------------------------------------
(* JavaScript values *)

JSUndefined == [t |-> "undefined"]
JSNull == [t |-> "null"]
JSNaN == [t |-> "NaN"]
JSNum(n) == [t |-> "number", n |-> n]
JSStr(s) == [t |-> "string", s |-> s]
JSBool(b) == [t |-> "boolean", b |-> b]
\* An object: a function from its keys to their values.
JSObj(f) == [t |-> "object", o |-> f]
EmptyObj == JSObj(<<>>)
\* A string holding a whole document: the JSON text of the value v (doc = "json"),
\* the form encoding key=value&... of the flat object v (doc = "form"), or text
\* that is neither (doc = "junk").
JSDoc(doc, v) == [t |-> "string", doc |-> doc, v |-> v]
IsDoc(x) == x.t = "string" /\ "doc" \in DOMAIN x
\* A Buffer holding the bytes of a text.
JSBuffer(text) == [t |-> "buffer", text |-> text]

\* x ?? y
Nullish(x) == x.t \in {"undefined", "null"}
Coalesce(x, y) == IF Nullish(x) THEN y ELSE x

DigitValue(c) ==
    CASE c = "0" -> 0 [] c = "1" -> 1 [] c = "2" -> 2 [] c = "3" -> 3
      [] c = "4" -> 4 [] c = "5" -> 5 [] c = "6" -> 6 [] c = "7" -> 7
      [] c = "8" -> 8 [] c = "9" -> 9 [] OTHER -> -1

RECURSIVE DigitsValue(_, _)
\* The value of a sequence of decimal digits, read left to right from acc.
DigitsValue(s, acc) ==
    IF s = <<>> THEN acc ELSE DigitsValue(Tail(s), 10 * acc + DigitValue(Head(s)))

AllDigits(s) == s # <<>> /\ \A k \in 1..Len(s) : DigitValue(s[k]) >= 0

\* Number(s) of a string: "" is 0, an optionally signed run of decimal digits
\* is its value, anything else is NaN.
StringToNumber(s) ==
    IF s = <<>> THEN JSNum(0)
    ELSE IF AllDigits(s) THEN JSNum(DigitsValue(s, 0))
    ELSE IF Head(s) = "-" /\ AllDigits(Tail(s)) THEN JSNum(0 - DigitsValue(Tail(s), 0))
    ELSE JSNaN

\* Number(x): undefined is NaN, null is 0, a number is itself, a string is parsed.
ToNumber(x) ==
    CASE x.t = "undefined" -> JSNaN
      [] x.t = "null" -> JSNum(0)
      [] x.t = "number" -> x
      [] x.t = "boolean" -> JSNum(IF x.b THEN 1 ELSE 0)
      [] x.t = "string" -> IF IsDoc(x) THEN JSNaN ELSE StringToNumber(x.s)
      [] OTHER -> JSNaN

\* const safeNum = (x) => { const n = Number(x); return Number.isFinite(n) ? n : null; };
safeNum(x) == LET n == ToNumber(x) IN IF n.t = "number" THEN n ELSE JSNull

---------------------------------------------------------------------------
(* computeEV *)

Max2(a, b) == IF a >= b THEN a ELSE b
Min2(a, b) == IF a <= b THEN a ELSE b

\* Mutant of MathRound: a .5 tie rounded away from zero (Math.sign(x) * Math.round(Math.abs(x))).
MathRoundAwayFromZero(num, den) ==
    IF num >= 0 THEN (2 * num + den) \div (2 * den)
    ELSE 0 - ((2 * (0 - num) + den) \div (2 * den))

\* Math.round of the fraction num / den (den > 0): floor(num / den + 1/2), so an
\* exact .5 tie goes toward +infinity.
MathRound(num, den) == (2 * num + den) \div (2 * den)

\* a > 0 in JavaScript for a number or null (null > 0 is false).
GtZero(x) == x.t = "number" /\ x.n > 0
IsZero(x) == x.t = "number" /\ x.n = 0

\* Mutant of ZeroAsMissingMin: the zero is dropped beside any non-zero bound (ma !== 0).
ZeroAsMissingMinAnySign(mi, ma) ==
    IF ZERO_AS_MISSING /\ IsZero(mi) /\ ma.t = "number" /\ ma.n # 0 THEN JSNull ELSE mi

\* Mutant of ZeroAsMissingMax: line 32 left out, only a zero min is dropped.
ZeroAsMissingMaxNever(mi, ma) == ma

\* mi after line 31, ma after line 32 (ma is tested against the updated mi).
ZeroAsMissingMin(mi, ma) ==
    IF ZERO_AS_MISSING /\ IsZero(mi) /\ GtZero(ma) THEN JSNull ELSE mi
ZeroAsMissingMax(mi, ma) ==
    IF ZERO_AS_MISSING /\ IsZero(ma) /\ GtZero(mi) THEN JSNull ELSE ma

\* Twice the midpoint m of line 34: mi + ma when both are non-null, else
\* 2 * (mi ?? ma ?? 0).
Midpoint2(mi, ma) ==
    IF mi.t # "null" /\ ma.t # "null" THEN mi.n + ma.n
    ELSE 2 * Coalesce(mi, Coalesce(ma, JSNum(0))).n

\* 100 * p of line 35: Math.max(0, Math.min(100, safeNum(pPct) ?? 0)).
ClampPct(pPct) == Max2(0, Min2(100, Coalesce(safeNum(pPct), JSNum(0)).n))

computeEV(minArg, maxArg, pPct) ==
    LET mi0 == safeNum(minArg)
        ma0 == safeNum(maxArg)
        mi == ZeroAsMissingMin(mi0, ma0)
        ma == ZeroAsMissingMax(mi, ma0)
    IN MathRound(Midpoint2(mi, ma) * ClampPct(pPct), 200)

---------------------------------------------------------------------------
(* Objects, strings and the conversions the handler applies to the payload *)

\* x.k of a non-nullish x: an own key of an object, undefined otherwise.
Get(x, k) == IF x.t = "object" /\ k \in DOMAIN x.o THEN x.o[k] ELSE JSUndefined

\* x?.k
OptGet(x, k) == IF Nullish(x) THEN JSUndefined ELSE Get(x, k)

\* Object.keys(x).length > 0 of a non-nullish x: an object has its keys, a
\* non-empty string its indices, a number or a boolean none.
HasKeys(x) ==
    CASE x.t = "object" -> DOMAIN x.o # {}
      [] x.t = "string" -> IF IsDoc(x) THEN TRUE ELSE x.s # <<>>
      [] OTHER -> FALSE

\* x || {} takes {} for undefined, null, 0, NaN, false and "".
Falsy(x) ==
    \/ x.t \in {"undefined", "null", "NaN"}
    \/ x.t = "number" /\ x.n = 0
    \/ x.t = "boolean" /\ ~x.b
    \/ x.t = "string" /\ ~IsDoc(x) /\ x.s = <<>>

\* JSON.parse(x) of a string: ok with the parsed value, or not ok (it throws).
\* A JSON document parses to its value; a run of digits without a leading
\* zero, optionally signed, parses to the number; other text throws.
JSONParse(x) ==
    IF IsDoc(x)
    THEN IF x.doc = "json" THEN [ok |-> TRUE, v |-> x.v] ELSE [ok |-> FALSE, v |-> JSUndefined]
    ELSE LET digits == IF x.s # <<>> /\ Head(x.s) = "-" THEN Tail(x.s) ELSE x.s
         IN IF AllDigits(digits) /\ (Len(digits) = 1 \/ Head(digits) # "0")
            THEN [ok |-> TRUE, v |-> StringToNumber(x.s)]
            ELSE [ok |-> FALSE, v |-> JSUndefined]

\* function coerceObj(x)
coerceObj(x) ==
    IF x.t = "string"
    THEN IF JSONParse(x).ok THEN JSONParse(x).v ELSE EmptyObj
    ELSE IF Falsy(x) THEN EmptyObj ELSE x

DigitChar(d) ==
    CASE d = 0 -> "0" [] d = 1 -> "1" [] d = 2 -> "2" [] d = 3 -> "3" [] d = 4 -> "4"
      [] d = 5 -> "5" [] d = 6 -> "6" [] d = 7 -> "7" [] d = 8 -> "8" [] OTHER -> "9"

RECURSIVE NatToString(_)
NatToString(n) ==
    IF n < 10 THEN <<DigitChar(n)>> ELSE NatToString(n \div 10) \o <<DigitChar(n % 10)>>

\* String(x) of a value that is not undefined or null.  A document is its own
\* text, whose characters are not modelled: "{", "}" stands for it (it is not
\* empty); an object is "[object Object]".
JSString(x) ==
    CASE x.t = "string" -> IF IsDoc(x) THEN <<"{", "}">> ELSE x.s
      [] x.t = "number" -> IF x.n < 0 THEN <<"-">> \o NatToString(0 - x.n) ELSE NatToString(x.n)
      [] x.t = "boolean" -> IF x.b THEN <<"t", "r", "u", "e">> ELSE <<"f", "a", "l", "s", "e">>
      [] OTHER -> <<"[", "o", "b", "j", "e", "c", "t", " ", "O", "b", "j", "e", "c", "t", "]">>

\* new URLSearchParams(text) as an object: a form document gives its pairs (all
\* values strings), empty text gives no pair, other text gives one pair whose
\* key is the text itself.
FormDecode(text) ==
    IF IsDoc(text)
    THEN IF text.doc = "form" THEN text.v ELSE JSObj([k \in {"(text)"} |-> JSStr(<<>>)])
    ELSE IF text.s = <<>> THEN EmptyObj ELSE JSObj([k \in {"(text)"} |-> JSStr(<<>>)])

\* contentType.includes("application/x-www-form-urlencoded")
FormEncoded(contentType) == contentType = "application/x-www-form-urlencoded"

\* Lines 57-81: the outer object of a request.  streamError says whether the
\* raw stream, when it is read, ends with an error (the promise rejects).
ParseBody(rq, streamError) ==
    IF ~Nullish(rq.body) /\ ~(rq.body.t = "string" /\ ~IsDoc(rq.body) /\ rq.body.s = <<>>)
    THEN CASE rq.body.t = "string" -> [threw |-> FALSE, outer |-> coerceObj(rq.body)]
           [] rq.body.t = "buffer" ->
                IF FormEncoded(rq.contentType)
                THEN [threw |-> FALSE, outer |-> FormDecode(rq.body.text)]
                ELSE [threw |-> FALSE, outer |-> coerceObj(rq.body.text)]
           [] rq.body.t = "object" -> [threw |-> FALSE, outer |-> rq.body]
           [] OTHER -> [threw |-> FALSE, outer |-> EmptyObj]
    ELSE IF streamError THEN [threw |-> TRUE, outer |-> JSUndefined]
         ELSE IF FormEncoded(rq.contentType)
              THEN [threw |-> FALSE, outer |-> FormDecode(rq.raw)]
              ELSE [threw |-> FALSE, outer |-> coerceObj(rq.raw)]

\* Mutant of SelectPayload: the draft's coerceObj(outer.body) || outer, which is
\* always the coerced body.
SelectPayloadBodyOnly(outer) == coerceObj(Get(outer, "body"))

\* Lines 84-88 for a non-null outer whose body does not coerce to null: the
\* first of outer.body, outer.data, outer that has at least one key.
SelectPayload(outer) ==
    LET bodyCandidate == coerceObj(Get(outer, "body"))
        dataCandidate == coerceObj(Get(outer, "data"))
    IN IF HasKeys(bodyCandidate) THEN bodyCandidate
       ELSE IF HasKeys(dataCandidate) THEN dataCandidate ELSE outer

\* Lines 84-88 throw a TypeError when outer is null (outer.body), when the body
\* coerces to null (Object.keys(null)), or when the body has no key and the data
\* coerces to null.
SelectThrows(outer) ==
    \/ Nullish(outer)
    \/ Nullish(coerceObj(Get(outer, "body")))
    \/ ~HasKeys(coerceObj(Get(outer, "body"))) /\ Nullish(coerceObj(Get(outer, "data")))

\* Lines 90-95: String(payload.list_entry_id ?? payload.listEntryId ??
\* payload?.data?.list_entry_id ?? "").
ResolveListEntryId(payload) ==
    JSString(Coalesce(Get(payload, "list_entry_id"),
             Coalesce(Get(payload, "listEntryId"),
             Coalesce(OptGet(Get(payload, "data"), "list_entry_id"), JSStr(<<>>)))))

\* Line 96: Number(payload?.field?.list_id ?? payload?.list_id ??
\* outer?.field?.list_id ?? LIST_ID).
ResolveListId(payload, outer) ==
    ToNumber(Coalesce(OptGet(Get(payload, "field"), "list_id"),
             Coalesce(Get(payload, "list_id"),
             Coalesce(OptGet(Get(outer, "field"), "list_id"), JSNum(LIST_ID)))))

\* Mutant of OtherList: the list filter of line 99 lets every list through.
OtherListNever(listId) == FALSE

\* eventListId !== LIST_ID
OtherList(listId) == ~(listId.t = "number" /\ listId.n = LIST_ID)

\* Mutant of Disposition: the list filter is applied before the identifier check.
DispositionListFirst(entryId, listId) ==
    IF OtherList(listId) THEN "different_list"
    ELSE IF entryId = <<>> THEN "no_list_entry_id" ELSE "processing"

\* Lines 98-99: the two early returns, in their order.
Disposition(entryId, listId) ==
    IF entryId = <<>> THEN "no_list_entry_id"
    ELSE IF OtherList(listId) THEN "different_list" ELSE "processing"

\* Lines 84-99 for an outer value: the payload, the resolved pair and the
\* disposition, or a thrown TypeError.
Normalize(outer) ==
    IF SelectThrows(outer)
    THEN [threw |-> TRUE, listEntryId |-> <<>>, eventListId |-> JSNaN, disposition |-> "threw"]
    ELSE LET payload == SelectPayload(outer)
             entryId == ResolveListEntryId(payload)
             listId == ResolveListId(payload, outer)
         IN [threw |-> FALSE, listEntryId |-> entryId, eventListId |-> listId,
             disposition |-> Disposition(entryId, listId)]

---------------------------------------------------------------------------
(* Input values *)

Amounts == (0 - MaxAmount)..MaxAmount
Likelihoods == {25 * k : k \in (0 - 1)..MaxPctStep}

\* A string that is no number, and a string that is one.
NonNumeric == JSStr(<<"n", "/", "a">>)
NumericText == JSStr(<<"-", "2">>)

AmountInputs == {JSUndefined, JSNull, NonNumeric, NumericText} \cup {JSNum(n) : n \in Amounts}
LikelihoodInputs == {JSUndefined, JSNull, NonNumeric} \cup {JSNum(n) : n \in Likelihoods}

---------------------------------------------------------------------------
(* Requests *)

\* A key that an object does not have.
Absent == [t |-> "absent"]

\* The object with the keys of full whose value is not Absent.
MkObj(full) == JSObj([k \in {c \in DOMAIN full : full[c].t # "absent"} |-> full[k]])

Payload(le, lc, d, fl, l, b, x) ==
    MkObj([list_entry_id |-> le, listEntryId |-> lc, data |-> d, field |-> fl,
           list_id |-> l, body |-> b, type |-> x])

Text(str) == JSStr(str)
EventType == JSStr(<<"f", "v">>)
FieldOf(listId) == JSObj([k \in {"list_id"} |-> listId])

\* Affinity v1 sends { type, body: {...} }; { type, data: {...} } is unwrapped too.
Envelope(P) == MkObj([type |-> EventType, body |-> P])
DataEnvelope(P) == MkObj([type |-> EventType, data |-> P])
Wrapped(P, wrap) ==
    CASE wrap = "body" -> Envelope(P)
      [] wrap = "data" -> DataEnvelope(P)
      [] OTHER -> P

\* The request that carries the value v as JSON in the given representation:
\* an already-parsed object, a string, a Buffer, or no body and a raw stream.
Request(v, rep, contentType) ==
    [contentType |-> contentType,
     body |-> CASE rep = "object" -> v
                [] rep = "string" -> JSDoc("json", v)
                [] rep = "buffer" -> JSBuffer(JSDoc("json", v))
                [] OTHER -> JSUndefined,
     raw |-> IF rep = "stream" THEN JSDoc("json", v) ELSE JSStr(<<>>),
     streamError |-> FALSE]

\* Lines 57-99 for a request.
NormalizeRequest(rq) ==
    LET parsed == ParseBody(rq, rq.streamError)
    IN IF parsed.threw
       THEN [threw |-> TRUE, listEntryId |-> <<>>, eventListId |-> JSNaN, disposition |-> "threw"]
       ELSE Normalize(parsed.outer)

JSON == "application/json"
FORM == "application/x-www-form-urlencoded"

OtherListId == JSNum(111)

\* The payloads of the handler's requests: with and without an identifier, with
\* the target list, another list or no list id.
HandlerPayloads ==
    {Payload(le, Absent, Absent, fl, Absent, Absent, EventType) :
        le \in {Absent, Text(<<>>), JSNum(42)},
        fl \in {Absent, FieldOf(JSNum(LIST_ID)), FieldOf(OtherListId)}}

FormPairs == JSObj([list_entry_id |-> Text(<<"4", "2">>), list_id |-> Text(<<"3", "0", "0", "3", "0", "5">>)])

\* The request that carries a text in the given representation: a string, a
\* Buffer, or no body and the text on the raw stream.
TextRequest(text, rep, contentType) ==
    [contentType |-> contentType,
     body |-> CASE rep = "string" -> text
                [] rep = "buffer" -> JSBuffer(text)
                [] OTHER -> JSUndefined,
     raw |-> IF rep = "stream" THEN text ELSE JSStr(<<>>),
     streamError |-> FALSE]

TextReps == {"string", "buffer", "stream"}

\* The text a request carries, whatever its representation.
TextOf(rq) ==
    CASE rq.body.t = "string" -> rq.body
      [] rq.body.t = "buffer" -> rq.body.text
      [] OTHER -> rq.raw

\* Text that is neither JSON nor a form, the JSON texts null and 5.
Junk == JSDoc("junk", JSUndefined)
NullText == JSDoc("json", JSNull)
NumberText == JSDoc("json", JSNum(5))

\* Bodies that hold no payload object: no text, text that does not parse, JSON
\* that parses to null or to a number, and envelopes whose body or data field is
\* null, a number, or such a text.
MalformedRequests ==
    {TextRequest(t, rep, JSON) : t \in {Text(<<>>), Junk, NullText, NumberText}, rep \in TextReps}
    \cup {Request(Wrapped(v, w), "object", JSON) :
            v \in {JSNull, JSNum(5), Text(<<>>), Junk, NullText, NumberText}, w \in {"body", "data"}}

\* {"list_entry_id":42} as JSON text and list_entry_id=42&list_id=300305 as form
\* text, each in every representation and under both content types.
JSONPairs == JSObj([list_entry_id |-> JSNum(42)])
EncodedRequests ==
    {TextRequest(t, rep, ct) :
        t \in {JSDoc("json", JSONPairs), JSDoc("form", FormPairs)}, rep \in TextReps, ct \in {JSON, FORM}}

Requests ==
    {Request(Wrapped(P, w), "object", JSON) : P \in HandlerPayloads, w \in {"direct", "body"}}
    \cup {Request(JSObj([ping |-> JSBool(TRUE)]), "string", JSON),
          Request(JSObj([listEntryId |-> Text(<<"7">>)]), "stream", JSON),
          [Request(JSObj([listEntryId |-> Text(<<"7">>)]), "stream", JSON) EXCEPT !.streamError = TRUE],
          Request(JSNull, "string", JSON),
          [contentType |-> FORM, body |-> JSBuffer(JSDoc("form", FormPairs)), raw |-> JSStr(<<>>),
           streamError |-> FALSE]}
    \cup MalformedRequests
    \cup EncodedRequests

---------------------------------------------------------------------------
(* The remote data API as the handler sees it *)

\* The HTTP statuses the remote API answers with.
HttpStatuses == {200, 204, 401, 500}

\* V2 is axios.create({baseURL, headers, timeout}) with no validateStatus, so
\* axios's default decides which responses resolve: status >= 200 && status < 300.
\* Every other response rejects with an error that carries it.
ValidateStatus(status) == status >= 200 /\ status < 300

\* The errors an outbound call rejects with: one carrying the response of the
\* given status, or one without a response (network failure, timeout).
HttpError(status) == [hasResponse |-> TRUE, status |-> status]
NetworkError == [hasResponse |-> FALSE, status |-> 0]
\* A TypeError thrown by the handler's own code.
TypeError == [hasResponse |-> FALSE, status |-> 0]

RejectedWith == {HttpError(s) : s \in {c \in HttpStatuses : ~ValidateStatus(c)}} \cup {NetworkError}

\* The values a field of the read carries (f.value?.data): undefined when the
\* field or its value is absent, null, text that is no number, or a number.
FieldAmounts == (0 - MaxFieldAmount)..MaxFieldAmount
RawAmounts == {JSUndefined, JSNull, NonNumeric} \cup {JSNum(n) : n \in FieldAmounts}
RawLikelihoods == {JSUndefined, JSNull} \cup {JSNum(50 * k) : k \in 0..MaxFieldPctStep}
RawStored == {JSNull, JSNum(7)}
FieldStates == [min : RawAmounts, max : RawAmounts, p : RawLikelihoods, ev : RawStored]

NoFields == [min |-> JSUndefined, max |-> JSUndefined, p |-> JSUndefined, ev |-> JSUndefined]

---------------------------------------------------------------------------
(* Responses *)

NoResponse == [status |-> 0, kind |-> "none", reason |-> "", errStatus |-> 0]

\* res.status(500).json({ ok: false, error: "Missing AFFINITY_V2_TOKEN" })
MissingTokenResponse == [status |-> 500, kind |-> "missing_token", reason |-> "", errStatus |-> 0]

\* res.status(200).json({ skipped: true, reason, ... })
SkippedResponse(reason) == [status |-> 200, kind |-> "skipped", reason |-> reason, errStatus |-> 0]

\* res.status(200).json({ ok: false, step: "post_ev", status: post.status, ... })
PostEvResponse(status) == [status |-> 200, kind |-> "post_ev", reason |-> "", errStatus |-> status]

\* res.status(200).json({ ok: true, listEntryId, min, max, p, ev, persisted })
OkResponse == [status |-> 200, kind |-> "ok", reason |-> "", errStatus |-> 0]

\* Mutant of CatchResponse: the error's status is passed on as the HTTP status.
CatchResponsePassStatus(e) ==
    LET status == IF e.hasResponse /\ e.status # 0 THEN e.status ELSE 500
    IN [status |-> status, kind |-> "error", reason |-> "", errStatus |-> status]

\* Mutant of CatchResponse: the body's status is always 500 (e.response ignored).
CatchResponseAlways500(e) == [status |-> 200, kind |-> "error", reason |-> "", errStatus |-> 500]

\* Lines 128-132: status = e?.response?.status || 500, answered with HTTP 200.
CatchResponse(e) ==
    LET status == IF e.hasResponse /\ e.status # 0 THEN e.status ELSE 500
    IN [status |-> 200, kind |-> "error", reason |-> "", errStatus |-> status]

---------------------------------------------------------------------------
(* The handler, one action per stretch of code between two awaits *)

\* res.status(...).json(...) and return.
Respond(r) ==
    /\ resp' = r
    /\ pc' = "done"

\* Lines 128-132: the catch block takes the error e and answers.
Catch(e) ==
    /\ caught' = <<e>>
    /\ Respond(CatchResponse(e))

\* Lines 43-45: the credential is absent.
StartMissingToken ==
    /\ pc = "start"
    /\ ~token
    /\ Respond(MissingTokenResponse)
    /\ UNCHANGED <<harnessVars, caught, token, req, listEntryId, eventListId, fields, min, max,
                   p, ev, post, i,
                   persisted, reads, delays, calls>>

\* Lines 57-88 throw: the raw stream of an absent body ends with an error, or
\* the unwrapping meets null (a TypeError); the catch block answers.
StartThrows ==
    /\ pc = "start"
    /\ token
    /\ NormalizeRequest(req).threw
    /\ Catch(TypeError)
    /\ UNCHANGED <<harnessVars, token, req, listEntryId, eventListId, fields, min, max, p, ev,
                   post, i,
                   persisted, reads, delays, calls>>

\* Lines 57-99 with an early return: the request is skipped.
StartSkipped ==
    /\ pc = "start"
    /\ token
    /\ LET n == NormalizeRequest(req)
       IN /\ ~n.threw
          /\ n.disposition # "processing"
          /\ listEntryId' = n.listEntryId
          /\ eventListId' = n.eventListId
          /\ Respond(SkippedResponse(n.disposition))
    /\ UNCHANGED <<harnessVars, caught, token, req, fields, min, max, p, ev, post, i, persisted,
                   reads, delays, calls>>

\* Lines 57-102: the request passes both checks and the per-entry read is issued.
StartProcessing ==
    /\ pc = "start"
    /\ token
    /\ LET n == NormalizeRequest(req)
       IN /\ ~n.threw
          /\ n.disposition = "processing"
          /\ listEntryId' = n.listEntryId
          /\ eventListId' = n.eventListId
    /\ calls' = Append(calls, "GET")
    /\ pc' = "read"
    /\ UNCHANGED <<harnessVars, caught, token, req, fields, min, max, p, ev, post, i, persisted,
                   reads, delays, resp>>

\* Line 102 rejects: a non-2xx answer or a network failure.
ReadRejects ==
    /\ pc = "read"
    /\ \E e \in RejectedWith : Catch(e)
    /\ UNCHANGED <<harnessVars, token, req, listEntryId, eventListId, fields, min, max, p, ev,
                   post, i,
                   persisted, reads, delays, calls>>

\* Line 103 throws: the answer's data is no array, or one of its entries is null.
ReadMalformed ==
    /\ pc = "read"
    /\ Catch(TypeError)
    /\ UNCHANGED <<harnessVars, token, req, listEntryId, eventListId, fields, min, max, p, ev,
                   post, i,
                   persisted, reads, delays, calls>>

\* Lines 102-113: the read answers, EV is computed and the write is issued.
ReadReturns ==
    /\ pc = "read"
    /\ \E f \in FieldStates :
        /\ fields' = f
        /\ min' = safeNum(f.min)
        /\ max' = safeNum(f.max)
        /\ p' = safeNum(f.p)
        /\ ev' = computeEV(safeNum(f.min), safeNum(f.max), safeNum(f.p))
    /\ calls' = Append(calls, "POST")
    /\ pc' = "post"
    /\ UNCHANGED <<harnessVars, caught, token, req, listEntryId, eventListId, post, i, persisted,
                   reads, delays, resp>>

\* Lines 110-113 reject: a network failure, or an answer whose status
\* validateStatus refuses.
PostRejects ==
    /\ pc = "post"
    /\ \E e \in RejectedWith :
        /\ post' = [answered |-> e.hasResponse, status |-> e.status]
        /\ Catch(e)
    /\ UNCHANGED <<harnessVars, token, req, listEntryId, eventListId, fields, min, max, p, ev, i,
                   persisted, reads, delays, calls>>

\* Lines 110-121: the write resolves; a status outside 2xx is answered with the
\* post_ev body, otherwise the verify loop starts with its first re-read.
PostResolves ==
    /\ pc = "post"
    /\ \E s \in HttpStatuses :
        /\ ValidateStatus(s)
        /\ post' = [answered |-> TRUE, status |-> s]
        /\ IF s < 200 \/ s >= 300
           THEN /\ Respond(PostEvResponse(s))
                /\ UNCHANGED <<i, persisted, calls>>
           ELSE /\ i' = 0
                /\ persisted' = JSNull
                /\ calls' = Append(calls, "GET")
                /\ pc' = "verify"
                /\ UNCHANGED resp
    /\ UNCHANGED <<harnessVars, caught, token, req, listEntryId, eventListId, fields, min, max,
                   p, ev, reads, delays>>

\* Line 121 rejects.
VerifyRejects ==
    /\ pc = "verify"
    /\ \E e \in RejectedWith : Catch(e)
    /\ UNCHANGED <<harnessVars, token, req, listEntryId, eventListId, fields, min, max, p, ev,
                   post, i,
                   persisted, reads, delays, calls>>

\* Line 122 throws: the re-read's data is no array, or one of its entries is null.
VerifyMalformed ==
    /\ pc = "verify"
    /\ Catch(TypeError)
    /\ UNCHANGED <<harnessVars, token, req, listEntryId, eventListId, fields, min, max, p, ev,
                   post, i,
                   persisted, reads, delays, calls>>

\* The values a re-read may carry for the EV field: nothing yet, null, the
\* value just written, or the value stored before the write.
VerifyValues == {JSUndefined, JSNull, JSNum(ev), fields.ev}

\* Lines 121-124 and 127: a re-read answers; a non-null persisted ends the loop
\* and the handler responds, otherwise the handler sleeps 200 * 2^i ms.
VerifyReturns ==
    /\ pc = "verify"
    /\ \E v \in VerifyValues :
        /\ reads' = Append(reads, v)
        /\ persisted' = safeNum(v)
        /\ IF safeNum(v).t # "null"
           THEN /\ Respond(OkResponse)
                /\ UNCHANGED delays
           ELSE /\ delays' = Append(delays, 200 * 2^i)
                /\ pc' = "sleep"
                /\ UNCHANGED resp
    /\ UNCHANGED <<harnessVars, caught, token, req, listEntryId, eventListId, fields, min, max,
                   p, ev, post, i, calls>>

\* Mutant of LoopContinues: one attempt more (i <= 4).
LoopContinuesOneMore(k) == k <= MaxAttempts

\* Line 120: the loop condition i < 4.
LoopContinues(k) == k < MaxAttempts

\* Lines 120 and 124-127: the sleep ends, i++, and either the next re-read is
\* issued (i < 4) or the loop is over and the handler responds.
SleepReturns ==
    /\ pc = "sleep"
    /\ i' = i + 1
    /\ IF LoopContinues(i + 1)
       THEN /\ calls' = Append(calls, "GET")
            /\ pc' = "verify"
            /\ UNCHANGED resp
       ELSE /\ Respond(OkResponse)
            /\ UNCHANGED calls
    /\ UNCHANGED <<harnessVars, caught, token, req, listEntryId, eventListId, fields, min, max,
                   p, ev, post,
                   persisted, reads, delays>>

Next ==
    \/ StartMissingToken
    \/ StartThrows
    \/ StartSkipped
    \/ StartProcessing
    \/ ReadRejects
    \/ ReadMalformed
    \/ ReadReturns
    \/ PostRejects
    \/ PostResolves
    \/ VerifyRejects
    \/ VerifyMalformed
    \/ VerifyReturns
    \/ SleepReturns

---------------------------------------------------------------------------
(* Specifications *)

\* The calculator and normaliser harnesses at rest.
EVIdle ==
    /\ evArgs = [min |-> JSNull, max |-> JSNull, p |-> JSNull]
    /\ evDone = TRUE
    /\ evResult = 0

NormIdle ==
    /\ normIn = [payload |-> EmptyObj, wrap |-> "direct", rep |-> "object", contentType |-> JSON]
    /\ normDone = TRUE
    /\ normOut = Normalize(EmptyObj)

\* No second invocation: the two-invocation variables at rest.
Invocations == {1, 2}
IdleInvocation == [pc |-> "idle", min |-> JSNull, max |-> JSNull, p |-> JSNull, ev |-> 0,
                   persisted |-> JSNull]
RaceIdle ==
    /\ remote = NoFields
    /\ inv = [k \in Invocations |-> IdleInvocation]
    /\ changes = 0

\* The handler before any invocation.
HandlerIdle ==
    /\ token = TRUE
    /\ req = Request(EmptyObj, "object", JSON)
    /\ pc = "idle"
    /\ listEntryId = <<>>
    /\ eventListId = JSNaN
    /\ fields = NoFields
    /\ min = JSNull
    /\ max = JSNull
    /\ p = JSNull
    /\ ev = 0
    /\ post = [answered |-> FALSE, status |-> 0]
    /\ i = 0
    /\ persisted = JSNull
    /\ reads = <<>>
    /\ delays = <<>>
    /\ calls = <<>>
    /\ resp = NoResponse
    /\ caught = <<>>

\* One invocation of handler(req, res): any request, the credential set or not.
Init ==
    /\ token \in BOOLEAN
    /\ req \in Requests
    /\ pc = "start"
    /\ listEntryId = <<>>
    /\ eventListId = JSNaN
    /\ fields = NoFields
    /\ min = JSNull
    /\ max = JSNull
    /\ p = JSNull
    /\ ev = 0
    /\ post = [answered |-> FALSE, status |-> 0]
    /\ i = 0
    /\ persisted = JSNull
    /\ reads = <<>>
    /\ delays = <<>>
    /\ calls = <<>>
    /\ resp = NoResponse
    /\ caught = <<>>
    /\ EVIdle
    /\ NormIdle
    /\ RaceIdle

Spec == Init /\ [][Next]_vars

---------------------------------------------------------------------------
(* The calculator harness: computeEV applied to every triple of inputs. *)

EVInit ==
    /\ evArgs \in [min : AmountInputs, max : AmountInputs, p : LikelihoodInputs]
    /\ evDone = FALSE
    /\ evResult = 0
    /\ HandlerIdle
    /\ NormIdle
    /\ RaceIdle

EVCompute ==
    /\ ~evDone
    /\ evDone' = TRUE
    /\ evResult' = computeEV(evArgs.min, evArgs.max, evArgs.p)
    /\ UNCHANGED <<evArgs, handlerVars, normVars, raceVars>>

EVNext == EVCompute

SpecEV == EVInit /\ [][EVNext]_vars

---------------------------------------------------------------------------
(* The normaliser harness: lines 57-99 applied to every request. *)

ListEntryIdValues == {Absent, JSNull, Text(<<>>), Text(<<"4", "2">>), JSNum(42)}
CamelValues == {Absent, Text(<<"7">>)}
NestedValues == {Absent, EmptyObj, JSObj([list_entry_id |-> Text(<<"9">>)])}
FieldValues == {Absent, FieldOf(JSNum(LIST_ID)), FieldOf(OtherListId)}
ListIdValues == {Absent, JSNum(LIST_ID), OtherListId}
OwnBodyValues == {Absent, JSObj([list_entry_id |-> Text(<<"5">>)])}
TypeValues == {Absent, EventType}

NormPayloads ==
    {Payload(le, lc, d, fl, l, b, x) :
        le \in ListEntryIdValues, lc \in CamelValues, d \in NestedValues, fl \in FieldValues,
        l \in ListIdValues, b \in OwnBodyValues, x \in TypeValues}

NormInputs ==
    [payload : NormPayloads, wrap : {"direct", "body", "data"},
     rep : {"object", "string", "buffer", "stream"}, contentType : {JSON, FORM}]

RequestOf(in) == Request(Wrapped(in.payload, in.wrap), in.rep, in.contentType)

NormInit ==
    /\ normIn \in NormInputs
    /\ normDone = FALSE
    /\ normOut = Normalize(EmptyObj)
    /\ HandlerIdle
    /\ EVIdle
    /\ RaceIdle

NormRun ==
    /\ ~normDone
    /\ normDone' = TRUE
    /\ normOut' = NormalizeRequest(RequestOf(normIn))
    /\ UNCHANGED <<normIn, handlerVars, evVars, raceVars>>

NormNext == NormRun

SpecNorm == NormInit /\ [][NormNext]_vars

---------------------------------------------------------------------------
(* Two invocations for the same list entry.  Each owns its local values; the  *)
(* remote record is all they share.  They interleave at their awaits: the     *)
(* read of line 102, the write of line 110, the re-read of line 121.  Every   *)
(* call succeeds here; the failures are those of Spec.                        *)

\* The min, max and likelihood a user may give the entry.
EditedFields ==
    [min : {JSNum(n) : n \in FieldAmounts}, max : {JSNum(n) : n \in FieldAmounts},
     p : {JSNum(50 * k) : k \in 0..MaxFieldPctStep}]

\* Both invocations have passed lines 41-102: their reads are in flight.
RaceInit ==
    /\ remote \in {[min |-> f.min, max |-> f.max, p |-> f.p, ev |-> e] :
                        f \in EditedFields, e \in RawStored}
    /\ inv = [k \in Invocations |-> [IdleInvocation EXCEPT !.pc = "read"]]
    /\ changes = 0
    /\ HandlerIdle
    /\ EVIdle
    /\ NormIdle

\* Lines 102-113 of one invocation: its read answers with the fields as they
\* are stored now, it computes ev and issues the write.
RaceReadReturns ==
    /\ \E k \in Invocations :
        /\ inv[k].pc = "read"
        /\ inv' = [inv EXCEPT ![k] =
                     [pc |-> "post", min |-> safeNum(remote.min), max |-> safeNum(remote.max),
                      p |-> safeNum(remote.p),
                      ev |-> computeEV(safeNum(remote.min), safeNum(remote.max), safeNum(remote.p)),
                      persisted |-> JSNull]]
    /\ UNCHANGED <<remote, changes, handlerVars, evVars, normVars>>

\* Lines 110-121 of one invocation: the remote API stores the ev it was sent
\* and answers 2xx; the invocation issues its first re-read.
RacePostResolves ==
    /\ \E k \in Invocations :
        /\ inv[k].pc = "post"
        /\ remote' = [remote EXCEPT !.ev = JSNum(inv[k].ev)]
        /\ inv' = [inv EXCEPT ![k].pc = "verify"]
    /\ UNCHANGED <<changes, handlerVars, evVars, normVars>>

\* Lines 121-127 of one invocation: the re-read returns the EV stored now, a
\* number, so the loop ends and the invocation responds.
RaceVerifyReturns ==
    /\ \E k \in Invocations :
        /\ inv[k].pc = "verify"
        /\ inv' = [inv EXCEPT ![k].pc = "done", ![k].persisted = safeNum(remote.ev)]
    /\ UNCHANGED <<remote, changes, handlerVars, evVars, normVars>>

\* A user edits min, max or likelihood while a read of line 102 is still in
\* flight, so that the values stored last are read by an invocation.
FieldsEdited ==
    /\ changes < MaxEdits
    /\ \E k \in Invocations : inv[k].pc = "read"
    /\ \E f \in EditedFields :
        /\ f # [min |-> remote.min, max |-> remote.max, p |-> remote.p]
        /\ remote' = [min |-> f.min, max |-> f.max, p |-> f.p, ev |-> remote.ev]
    /\ changes' = changes + 1
    /\ UNCHANGED <<inv, handlerVars, evVars, normVars>>

RaceNext ==
    \/ RaceReadReturns
    \/ RacePostResolves
    \/ RaceVerifyReturns
    \/ FieldsEdited

SpecRace == RaceInit /\ [][RaceNext]_vars

---------------------------------------------------------------------------
(* Claims about computeEV, checked under SpecEV. *)

\* The number an input stands for, or null when it is null, missing or no number.
NumericOrMissing(x) ==
    CASE x.t = "number" -> x
      [] x.t = "string" /\ StringToNumber(x.s).t = "number" -> StringToNumber(x.s)
      [] OTHER -> JSNull

\* Twice the midpoint as documented: a zero bound beside a strictly positive one
\* is dropped, then the mean of two present bounds, the one present bound, or 0.
DocumentedMidpoint2(minArg, maxArg) ==
    LET a0 == NumericOrMissing(minArg)
        b0 == NumericOrMissing(maxArg)
        a == IF IsZero(a0) /\ GtZero(b0) THEN JSNull ELSE a0
        b == IF IsZero(b0) /\ GtZero(a0) THEN JSNull ELSE b0
    IN CASE a.t = "number" /\ b.t = "number" -> a.n + b.n
         [] a.t = "number" -> 2 * a.n
         [] b.t = "number" -> 2 * b.n
         [] OTHER -> 0

\* C6: for every min and max, null or missing or a number of either sign, the
\* midpoint computeEV uses is the documented one: a null or non-numeric input is
\* missing, two present bounds are averaged, one present bound is the midpoint,
\* none gives 0.
C6_MidpointAsDocumented ==
    evDone =>
        evResult = MathRound(DocumentedMidpoint2(evArgs.min, evArgs.max) * ClampPct(evArgs.p), 200)

\* Twice the midpoint that computeEV computes for its arguments.
CodeMidpoint2(minArg, maxArg) ==
    LET mi0 == safeNum(minArg)
        ma0 == safeNum(maxArg)
        mi == ZeroAsMissingMin(mi0, ma0)
    IN Midpoint2(mi, ZeroAsMissingMax(mi, ma0))

\* The numerator of the product m * p over the denominator 200.
Product200 == CodeMidpoint2(evArgs.min, evArgs.max) * ClampPct(evArgs.p)

\* num / den (den > 0) rounded to the nearest integer, a .5 tie away from zero.
RoundHalfAwayFromZero(num, den) ==
    IF num >= 0 THEN (2 * num + den) \div (2 * den)
    ELSE 0 - ((2 * (0 - num) + den) \div (2 * den))

\* C7 as stated: the product is rounded to the nearest integer and every exact
\* .5 tie, of a negative product too, is rounded away from zero.
C7_TiesAwayFromZero ==
    evDone => evResult = RoundHalfAwayFromZero(Product200, 200)

\* C7 as amended: the result r is the integer with r - 1/2 <= m * p < r + 1/2,
\* so an exact .5 tie goes toward +infinity: away from zero for a positive
\* product (2.5 gives 3), toward zero for a negative one (-2.5 gives -2);
\* a missing likelihood counts as 0 and computeEV(10, 11, 50) = 5.
C7_TiesTowardPlusInfinity ==
    /\ evDone =>
        /\ (2 * evResult - 1) * 200 <= 2 * Product200
        /\ 2 * Product200 < (2 * evResult + 1) * 200
        /\ (evArgs.p.t \in {"undefined", "null"} => evResult = 0)
    /\ computeEV(JSNum(10), JSNum(11), JSNum(50)) = 5
    /\ computeEV(JSNum(5), JSNum(5), JSNum(50)) = 3
    /\ computeEV(JSNum(-5), JSNum(-5), JSNum(50)) = -2

\* C7 witness: computeEV has rounded a negative product that is an exact .5 tie.
C7_NegativeTieRounded ==
    /\ evDone
    /\ Product200 < 0
    /\ (2 * Product200) % 400 = 200
    /\ evResult = (Product200 + 100) \div 200

\* C8: a zero bound beside a strictly positive bound b is dropped, so that
\* computeEV(0, b, p) = computeEV(b, 0, p) = computeEV(b, b, p); with both bounds
\* zero the result is 0, and a zero bound beside a negative bound is averaged in.
C8_ZeroAsMissing ==
    evDone =>
        LET lo == evArgs.min
            hi == evArgs.max
            pct == ClampPct(evArgs.p)
        IN /\ (IsZero(lo) /\ GtZero(hi)) =>
                /\ evResult = computeEV(hi, hi, evArgs.p)
                /\ evResult = computeEV(hi, lo, evArgs.p)
                /\ evResult = MathRound(hi.n * pct, 100)
           /\ (IsZero(hi) /\ GtZero(lo)) =>
                /\ evResult = computeEV(lo, lo, evArgs.p)
                /\ evResult = MathRound(lo.n * pct, 100)
           /\ (IsZero(lo) /\ IsZero(hi)) => evResult = 0
           /\ (IsZero(lo) /\ hi.t = "number" /\ hi.n < 0) =>
                evResult = MathRound(hi.n * pct, 200)
           /\ (IsZero(hi) /\ lo.t = "number" /\ lo.n < 0) =>
                evResult = MathRound(lo.n * pct, 200)

\* C8 witness: computeEV(0, b, p) with b > 0 returned the whole of b * p / 100,
\* which is not what averaging the zero in would have given.
C8_ZeroBoundDropped ==
    /\ evDone
    /\ IsZero(evArgs.min) /\ GtZero(evArgs.max)
    /\ evResult = MathRound(evArgs.max.n * ClampPct(evArgs.p), 100)
    /\ evResult # MathRound(evArgs.max.n * ClampPct(evArgs.p), 200)

\* C9: computeEV(min, max, p) = computeEV(max, min, p) for all inputs, the ones
\* where the zero-as-missing rule fires included.
C9_Commutative ==
    evDone => evResult = computeEV(evArgs.max, evArgs.min, evArgs.p)

\* C9 witness: computeEV returned for two different bounds, one of them the zero
\* that the rule drops (as max), and the result is not that of averaging.
C9_SwappedZeroBound ==
    /\ evDone
    /\ IsZero(evArgs.max) /\ GtZero(evArgs.min)
    /\ evResult # MathRound(evArgs.min.n * ClampPct(evArgs.p), 200)

---------------------------------------------------------------------------
(* Claims about the handler, checked under Spec. *)

Is2xx(status) == status >= 200 /\ status < 300

\* The invocation threw before the pair was resolved (lines 57-88).
ThrewBeforeResolving == pc = "done" /\ resp.kind = "error" /\ calls = <<>>

\* C1: the response's HTTP status is 500 exactly when the credential is absent;
\* with the credential every outcome (skip, success, remote non-2xx, network
\* failure, malformed answer, malformed body) is answered with 200 and a JSON
\* body, and an invocation that has not responded yet still has a step to take:
\* no failure leaves it without a response.
C1_Status500IffNoToken ==
    /\ pc = "done" =>
        /\ resp.kind \in {"missing_token", "skipped", "post_ev", "ok", "error"}
        /\ resp.status = 500 <=> ~token
        /\ token => resp.status = 200
    /\ pc # "done" => resp = NoResponse /\ ENABLED Next

\* C1 witness: with the credential set, a remote call was refused with 401 and
\* the handler answered 200 with the error body.
C1_RemoteFailureAnswered200 ==
    /\ pc = "done"
    /\ token
    /\ resp.kind = "error"
    /\ resp.errStatus = 401
    /\ resp.status = 200

\* C2: when the write is answered with a non-2xx status, the response is the
\* structured body {ok:false, step:"post_ev", status, data, ...} carrying that
\* status, never the generic {ok:false, error:{status, data}}.
C2_NonOkWriteGivesPostEvBody ==
    (pc = "done" /\ post.answered /\ ~Is2xx(post.status)) =>
        /\ resp.kind = "post_ev"
        /\ resp.errStatus = post.status

\* The re-reads whose EV value is neither null nor absent.
NonNullReads == {k \in 1..Len(reads) : ~Nullish(reads[k])}

\* C3: the verify loop goes on while the re-read is null or absent and fewer
\* than 4 attempts were made, and stops at the first non-null read; persisted is
\* that first non-null value, or null exactly when all 4 attempts read null.
C3_VerifyStopsAtFirstNonNull ==
    (pc = "done" /\ resp.kind = "ok") =>
        IF NonNullReads = {}
        THEN Len(reads) = MaxAttempts /\ persisted = JSNull
        ELSE /\ \A k \in NonNullReads : Len(reads) <= k
             /\ persisted = reads[Len(reads)]

\* The request carries no list id where line 96 looks for one.
CarriesNoListId ==
    LET outer == ParseBody(req, req.streamError).outer
        payload == SelectPayload(outer)
    IN /\ Nullish(OptGet(Get(payload, "field"), "list_id"))
       /\ Nullish(Get(payload, "list_id"))
       /\ Nullish(OptGet(Get(outer, "field"), "list_id"))

C5_WritesComputeEVOfFieldsRead ==
    (\E k \in 1..Len(calls) : calls[k] = "POST") =>
        ev = computeEV(fields.min, fields.max, fields.p)

---------------------------------------------------------------------------
(* Claims about the normalisation, checked under SpecNorm. *)

\* The same input sent directly instead of in an envelope.
DirectOf(in) == [in EXCEPT !.wrap = "direct"]

\* C10 as stated: for every payload object P with at least one key, the
\* envelope {type, body: P} resolves the same listEntryId and list id and takes
\* the same disposition as P sent directly.
C10_EnvelopeSameAsDirect ==
    (normDone /\ normIn.wrap = "body" /\ HasKeys(normIn.payload)) =>
        normOut = NormalizeRequest(RequestOf(DirectOf(normIn)))

\* P has no body and no data field of its own that holds keys.
NoOwnEnvelope(P) ==
    /\ Get(P, "body").t \in {"undefined", "null"} \/ Get(P, "body") = EmptyObj
    /\ Get(P, "data").t \in {"undefined", "null"} \/ Get(P, "data") = EmptyObj

\* The body is parsed as JSON (and not decoded as a form).
JSONDecoded(in) == in.rep \in {"object", "string"} \/ ~FormEncoded(in.contentType)

\* C10 as amended: for every payload object P with at least one key whose own
\* body and data fields are absent, null or objects without keys, the envelope
\* {type, body: P} resolves the same listEntryId, list id and disposition as P
\* sent directly; the payload is the first of outer.body, outer.data, outer that
\* has at least one key.
C10_EnvelopeSameAsDirectWithoutOwnEnvelope ==
    normDone =>
        LET P == normIn.payload
        IN /\ (normIn.wrap = "body" /\ HasKeys(P) /\ NoOwnEnvelope(P)) =>
                normOut = NormalizeRequest(RequestOf(DirectOf(normIn)))
           /\ (JSONDecoded(normIn) /\ normIn.wrap \in {"body", "data"} /\ HasKeys(P)) =>
                /\ ~normOut.threw
                /\ normOut.listEntryId = ResolveListEntryId(P)
                /\ normOut.eventListId = ResolveListId(P, EmptyObj)
           /\ (JSONDecoded(normIn) /\ normIn.wrap = "direct" /\ NoOwnEnvelope(P)) =>
                /\ ~normOut.threw
                /\ normOut.listEntryId = ResolveListEntryId(P)
           /\ (JSONDecoded(normIn) /\ normIn.wrap = "direct" /\ HasKeys(Get(P, "body"))) =>
                normOut.listEntryId = ResolveListEntryId(Get(P, "body"))

\* C10 witness: an envelope around a payload without body and data of its own
\* resolved the identifier "42" on the target list and is to be processed.
C10_EnvelopeResolved ==
    /\ normDone
    /\ normIn.wrap = "body"
    /\ NoOwnEnvelope(normIn.payload)
    /\ normOut.listEntryId = <<"4", "2">>
    /\ normOut.disposition = "processing"
    /\ normOut = NormalizeRequest(RequestOf(DirectOf(normIn)))

---------------------------------------------------------------------------
(* Claims about malformed bodies and failures, checked under Spec. *)

\* C11: the normalisation never throws: for every body that holds no payload
\* object (absent, empty, unparseable text, JSON that parses to null or to a
\* number, an envelope whose body or data field is such a value) the identifier
\* resolves to the empty string and the request ends as {skipped:true,
\* reason:"no_list_entry_id"}, never as {ok:false, error}.
C11_MalformedBodySkipped ==
    (token /\ pc = "done" /\ req \in MalformedRequests) =>
        /\ resp = SkippedResponse("no_list_entry_id")
        /\ listEntryId = <<>>
        /\ caught = <<>>

\* C12: whenever an outbound call (the read, the write or a verify re-read)
\* rejects or throws, the handler responds 200 with {ok:false, error:{status,
\* data}}, where status is the HTTP status the error carries and 500 when it
\* carries none; no other response follows a caught error.
C12_RejectionAnswered ==
    /\ caught # <<>> =>
        /\ pc = "done"
        /\ resp.status = 200
        /\ resp.kind = "error"
        /\ resp.errStatus = (IF caught[1].hasResponse THEN caught[1].status ELSE 500)
    /\ (pc = "done" /\ resp.kind = "error") => caught # <<>>
    /\ (post.answered /\ ~Is2xx(post.status)) => caught = <<HttpError(post.status)>>

\* C12 witness: a verify re-read was refused with 401 after the write, and the
\* handler answered 200 with error.status 401.
C12_VerifyRejectionAnswered ==
    /\ pc = "done"
    /\ Len(calls) >= 3
    /\ caught = <<HttpError(401)>>
    /\ resp.status = 200
    /\ resp.errStatus = 401

\* The longest sequence of outbound calls: the read, the write, four re-reads.
LongestCalls == <<"GET", "POST", "GET", "GET", "GET", "GET">>

\* C13: the outbound calls of an invocation are a prefix of read, write, and up
\* to 4 verify re-reads: one read, at most one write (never re-issued), re-reads
\* only after a 2xx write and then at least 1 and never a 5th; while a call is
\* pending there is no response, and after the response no call is issued.
C13_CallSequence ==
    /\ Len(calls) <= Len(LongestCalls)
    /\ \A k \in 1..Len(calls) : calls[k] = LongestCalls[k]
    /\ Len(calls) >= 3 <=> (post.answered /\ Is2xx(post.status))
    /\ pc \in {"read", "post", "verify", "sleep"} => (resp = NoResponse /\ calls # <<>>)
    /\ pc = "read" => Len(calls) = 1
    /\ pc = "post" => Len(calls) = 2
    /\ pc = "verify" => Len(calls) = 3 + i
    /\ (pc = "done" /\ resp.kind = "ok") => Len(calls) \in 3..6
    /\ pc = "done" => ~ENABLED Next

\* C13 witness: an invocation responded after the read, the write and four
\* verify re-reads that all found nothing.
C13_FourVerifyReads ==
    /\ pc = "done"
    /\ resp.kind = "ok"
    /\ calls = LongestCalls
    /\ persisted = JSNull

\* C14: an outbound call is issued only when the request is processed: the
\* credential is set, the identifier is not empty and the list id is 300305.
\* An invocation without the credential, one skipped for want of an identifier
\* and one filtered out for its list id respond without any read or write.
C14_CallsOnlyWhenProcessing ==
    /\ calls # <<>> =>
        /\ token
        /\ listEntryId # <<>>
        /\ eventListId = JSNum(300305)
    /\ (pc = "done" /\ resp.kind \in {"missing_token", "skipped"}) =>
        /\ calls = <<>>
        /\ fields = NoFields
        /\ ~post.answered
    /\ ~token => calls = <<>>
    /\ (token /\ pc # "start" /\ listEntryId = <<>>) => calls = <<>>
    /\ (token /\ pc # "start" /\ eventListId # JSNum(300305)) => calls = <<>>

\* C14 witness: a request with an identifier and another list's id was filtered
\* out, and no call was issued.
C14_FilteredOutWithoutCalls ==
    /\ pc = "done"
    /\ resp = SkippedResponse("different_list")
    /\ listEntryId # <<>>
    /\ eventListId = OtherListId
    /\ calls = <<>>

---------------------------------------------------------------------------
(* Claims about the identifier and the decoding of the body. *)

\* The unwrapped payload of a normaliser input (lines 57-88).
UnwrappedPayload(in) == SelectPayload(ParseBody(RequestOf(in), FALSE).outer)

\* A candidate that is present and whose string is not empty.
NonEmptyCandidate(x) == ~Nullish(x) /\ JSString(x) # <<>>

\* The first non-empty one of list_entry_id, listEntryId and data.list_entry_id
\* as a string, the empty string when there is none.
FirstNonEmptyIdentifier(P) ==
    LET a == Get(P, "list_entry_id")
        b == Get(P, "listEntryId")
        c == OptGet(Get(P, "data"), "list_entry_id")
    IN IF NonEmptyCandidate(a) THEN JSString(a)
       ELSE IF NonEmptyCandidate(b) THEN JSString(b)
       ELSE IF NonEmptyCandidate(c) THEN JSString(c) ELSE <<>>

\* C15: the identifier is the first NON-EMPTY one of list_entry_id, listEntryId
\* and data.list_entry_id of the unwrapped payload, as a string: a candidate
\* that is present but empty is passed over for a later non-empty one, and the
\* request is skipped only when all three are missing or empty.
C15_FirstNonEmptyIdentifier ==
    (normDone /\ ~normOut.threw) =>
        /\ normOut.listEntryId = FirstNonEmptyIdentifier(UnwrappedPayload(normIn))
        /\ normOut.disposition = "no_list_entry_id" <=>
                FirstNonEmptyIdentifier(UnwrappedPayload(normIn)) = <<>>

\* C16: the decoding of a body depends on the content type and the text only,
\* not on the representation: under a form-encoded content type the text is
\* decoded as key/value pairs, under any other it is JSON-parsed (a parse
\* failure giving the empty object), so the same text under the same content
\* type resolves the same identifier as a string, a Buffer or a raw stream.
C16_DecodingIndependentOfRepresentation ==
    (token /\ pc # "start" /\ req \in EncodedRequests) =>
        LET text == TextOf(req)
            form == FormEncoded(req.contentType)
        IN /\ \A rep \in TextReps :
                NormalizeRequest(TextRequest(text, rep, req.contentType)).listEntryId = listEntryId
           /\ (form /\ text = JSDoc("form", FormPairs)) => listEntryId = <<"4", "2">>
           /\ (~form /\ text = JSDoc("json", JSONPairs)) => listEntryId = <<"4", "2">>
           /\ (~form /\ text = JSDoc("form", FormPairs)) => listEntryId = <<>>

---------------------------------------------------------------------------
(* Claims about the verify loop and the remote record, checked under Spec. *)

\* The delays between four attempts: 200 * 2^i for i = 0, 1, 2.
DelaysBetweenAttempts == <<200, 400, 800>>

\* C17: the delays of the verify loop occur only between attempts: none before
\* the first re-read, 200 * 2^i ms between attempt i and attempt i+1 (200, 400,
\* 800), and none after the last attempt before the response.
C17_DelaysOnlyBetweenAttempts ==
    /\ Len(delays) <= Len(DelaysBetweenAttempts)
    /\ \A k \in 1..Len(delays) : delays[k] = DelaysBetweenAttempts[k]
    /\ pc = "verify" => Len(delays) = i
    /\ (pc = "done" /\ resp.kind = "ok") => Len(delays) = Len(reads) - 1

\* C19: in every {ok:true} response persisted is null or the ev this invocation
\* wrote, also when a re-read still returns the EV value stored before the write.
C19_PersistedIsNullOrWritten ==
    (pc = "done" /\ resp.kind = "ok") => (persisted = JSNull \/ persisted = JSNum(ev))

\* The remote API answered the write with a 2xx status: the EV field now holds ev.
WriteApplied == post.answered /\ Is2xx(post.status)

\* C20: whenever the handler responds ok:false, in either shape, this invocation
\* has not modified the EV field of the remote record; a verify re-read that
\* throws after a successful write does not make the response a failure.
C20_FailureMeansNotWritten ==
    (pc = "done" /\ resp.kind \in {"error", "post_ev"}) => ~WriteApplied

---------------------------------------------------------------------------
(* Claims about two interleaved invocations, checked under SpecRace. *)

\* C18: when two invocations for the same entry interleave at their awaits
\* while the entry's fields are edited between their reads, then once both have
\* responded the EV stored remotely is computeEV of the fields stored last: an
\* invocation holding an older snapshot never overwrites the newer EV.
C18_FinalEVFromFinalFields ==
    (\A k \in Invocations : inv[k].pc = "done") =>
        remote.ev = JSNum(computeEV(remote.min, remote.max, remote.p))

=============================================================================
